---- MODULE Spec2Model ----
(***************************************************************************)
(* Model of the concurrent measurement engine of dns-benchmark:            *)
(* benchmark.Run (src/benchmark/benchmark.go).  One Job Source goroutine,  *)
(* `Concurrency` worker goroutines, one closer goroutine and the collector *)
(* loop of Run itself communicate over two buffered channels.              *)
(***************************************************************************)
EXTENDS Integers, Sequences, FiniteSets, TLC

\* ---------------------------------------------------------------- bounds
MaxServers == 2
MaxDomains == 2
MaxIterations == 2
MaxConcurrency == 2
\* Largest workload of the runs that are not queue-filling runs: Servers x
\* Domains x Iterations in Iteration mode, Servers x Domains x samples in
\* WallClock mode.
MaxJobs == 4
\* Queue-filling runs: number of jobs beyond the channel capacity.
Overflow == 1
\* Longest record list given to calculateStats.
MaxRecords == 3

\* ------------------------------------------------------ program constants
\* bufferSize := config.Concurrency * 10
ChanFactor == 10
\* verbose slow-query threshold, 500*time.Millisecond
SlowThresholdMs == 500
\* a progress line is printed when completed%10 == 0
ProgressStep == 10
\* time.Hour, the initial Min of a ServerStats; durations are in milliseconds
HourMs == 3600000

\* ------------------------------------------------------------ data model
ServerName(k) == "s" \o ToString(k)
DomainName(k) == "d" \o ToString(k)

ServerList(S) == [k \in 1..S |-> ServerName(k)]
DomainList(D) == [k \in 1..D |-> DomainName(k)]

\* type Job struct { Server, Domain }
Job(server, domain) == [Server |-> server, Domain |-> domain]
NoJob == Job("", "")

\* type Result struct { Server, Domain, Duration, Error }
Result(server, domain, duration, error) ==
    [Server |-> server, Domain |-> domain, Duration |-> duration, Error |-> error]
NoResult == Result("", "", 0, "nil")

\* type Config struct
Config(S, D, n, c, dur, verbose, progress) ==
    [Servers |-> ServerList(S), Domains |-> DomainList(D), Iterations |-> n,
     Concurrency |-> c, Duration |-> dur, Verbose |-> verbose,
     ShowProgress |-> progress]

\* The probe is the environment of Run: one blocking query that returns an
\* elapsed time and an error or nil.  The resolvers of the model answer the
\* first domain in exactly the slow-query threshold (500ms), the second
\* server is slower (600ms), and every query for another domain times out
\* after 1000ms.
ProbeOutcome(server, domain) ==
    IF domain # DomainName(1) THEN [Duration |-> 1000, Error |-> "i/o timeout"]
    ELSE IF server = ServerName(2) THEN [Duration |-> 600, Error |-> "nil"]
    ELSE [Duration |-> SlowThresholdMs, Error |-> "nil"]

VARIABLES
    cfg,            \* config Config (read-only during the run)
    budget,         \* jobs the WallClock source samples at most before the deadline
    ctxDone,        \* ctx.Done() is closed: the deadline has fired
    src,            \* the enqueue goroutine: pc, loop indices, sampled job
    jobs,           \* buffer of chan Job
    jobsClosed,
    wk,             \* the worker goroutines: pc, job, res
    wg,             \* sync.WaitGroup counter
    results,        \* buffer of chan Result
    resultsClosed,
    completed,      \* progress counter (guarded by progressMu)
    closer,         \* pc of the closer goroutine
    allResults,     \* the list the collector builds
    mainpc,         \* pc of Run itself: "collect" or "returned"
    panicked,       \* "" or the reason of a run-time panic
    sent,           \* history: jobs placed on the job stream, in order
    lateSends,      \* history: number of jobs placed after the deadline fired
    taken,          \* history: jobs received by workers, in order
    published,      \* history: records sent on the result stream, in order
    progressLog,    \* history: values of completed that were printed
    diag,           \* history: number of verbose diagnostics printed
    probes,         \* history: number of probes made for each job
    records,        \* main: the argument `results` of calculateStats
    stats,          \* main: the list calculateStats returned
    statspc,        \* main: "idle", "call" (calculateStats is called), "done"
    callers,        \* Client: the goroutines calling Measure: pc, server, ...
    httpClient,     \* Client.httpClient: 0 (nil) or the number of the http.Client
    created,        \* history: number of http.Client values constructed
    flagVals,       \* main: the values of the flags -c, -n, -t, -d after flag.Parse
    mainCfg,        \* main: cfg *Config, <<>> (nil) or <<the Config it points to>>
    runCfg,         \* main: <<>> or <<the benchmark.Config given to benchmark.Run>>
    cfgpc           \* main: position in the resolution of the configuration

\* State of main around its call of calculateStats.
statsVars == <<records, stats, statspc>>

\* State of main while it resolves the configuration of the run.
optVars == <<flagVals, mainCfg, runCfg, cfgpc>>

\* State of main.
mainVars == <<records, stats, statspc, flagVals, mainCfg, runCfg, cfgpc>>

\* State of the Client shared by the workers of a run.
clientVars == <<callers, httpClient, created>>

\* State of benchmark.Run.
runVars == <<cfg, budget, ctxDone, src, jobs, jobsClosed, wk, wg, results,
             resultsClosed, completed, closer, allResults, mainpc, panicked,
             sent, lateSends, taken, published, progressLog, diag, probes>>

vars == <<cfg, budget, ctxDone, src, jobs, jobsClosed, wk, wg, results,
          resultsClosed, completed, closer, allResults, mainpc, panicked,
          sent, lateSends, taken, published, progressLog, diag, probes,
          records, stats, statspc, callers, httpClient, created,
          flagVals, mainCfg, runCfg, cfgpc>>

\* --------------------------------------------------------- configurations
\* Verbose and ShowProgress of the runs of the model: both off or both on.
Flags == {<<FALSE, FALSE>>, <<TRUE, TRUE>>}

\* Run configurations of the model.  Iteration mode: every combination of
\* list sizes, iteration count and pool size whose workload is at most
\* MaxJobs, and single-pair runs of a one-worker pool whose workload exceeds
\* the capacity of one queue or of both queues.  WallClock mode: every combination of list sizes and
\* pool size, with Iterations zero or not.
IterConfigs ==
    {k \in {Config(S, D, n, c, 0, f[1], f[2]) :
                S \in 0..MaxServers, D \in 0..MaxDomains, n \in 0..MaxIterations,
                c \in 0..MaxConcurrency, f \in Flags} :
        Len(k.Servers) * Len(k.Domains) * k.Iterations <= MaxJobs}

LongConfigs ==
    {Config(1, 1, n, 1, 0, FALSE, p) :
        n \in {ChanFactor + Overflow, 2 * ChanFactor + 1 + Overflow},
        p \in BOOLEAN}

WallConfigs ==
    {Config(S, D, 0, c, 1, f[1], f[2]) :
        S \in 0..MaxServers, D \in 0..MaxDomains,
        c \in 0..MaxConcurrency, f \in Flags}
    \cup
    {Config(S, D, MaxIterations, c, 1, FALSE, FALSE) :
        S \in 0..MaxServers, D \in 0..MaxDomains, c \in 0..MaxConcurrency}

\* WallClock mode: number of jobs the source samples at most before the
\* deadline fires (the loop of the source is unbounded in the code).
WallBudget(k) ==
    LET pairs == Len(k.Servers) * Len(k.Domains)
    IN IF pairs = 0 THEN MaxJobs ELSE MaxJobs \div pairs

\* WallClock run of a single pair and one worker in which the source samples
\* more jobs than the job queue holds before the deadline fires.
LongWallConfig == Config(1, 1, 0, 1, 1, FALSE, FALSE)

\* Variant: the channels have room for one element more.
bufferSizeOneMore == cfg.Concurrency * ChanFactor + 1

\* bufferSize := config.Concurrency * 10.  With Concurrency = 0 both channels
\* are unbuffered and, there being no worker, no send ever finds a receiver:
\* a send is possible exactly when the buffer holds fewer than bufferSize
\* elements.
bufferSize == cfg.Concurrency * ChanFactor

\* totalJobs: len(Servers) * len(Domains) * Iterations when Duration == 0
totalJobs ==
    IF cfg.Duration = 0
    THEN Len(cfg.Servers) * Len(cfg.Domains) * cfg.Iterations
    ELSE 0

\* Variant: the start-up loop runs once more (i <= config.Concurrency).
WorkersOneExtra == 1..(cfg.Concurrency + 1)

\* for i := 0; i < config.Concurrency; i++ { wg.Add(1); go func() {...} }
Workers == 1..cfg.Concurrency

Running == panicked = ""

\* The jobs the source of a run with configuration c can build.
JobsOf(c) ==
    {Job(c.Servers[si], c.Domains[di]) :
        si \in DOMAIN c.Servers, di \in DOMAIN c.Domains}

\* No goroutine is inside Client.Measure.
ClientIdle ==
    /\ callers = <<>>
    /\ httpClient = 0
    /\ created = 0

\* The numeric options of main's Config and of benchmark.Config; durations
\* are in milliseconds.
Options(c, n, t, d) ==
    [Concurrency |-> c, Iterations |-> n, Timeout |-> t, Duration |-> d]

\* main is not resolving a configuration.
ConfigIdle ==
    /\ flagVals = Options(0, 0, 0, 0)
    /\ mainCfg = <<>>
    /\ runCfg = <<>>
    /\ cfgpc = "idle"

\* main has not called calculateStats.
StatsIdle ==
    /\ records = <<>>
    /\ stats = <<>>
    /\ statspc = "idle"

\* State of Run once the workers, the enqueue goroutine and the closer
\* goroutine have been started and before any of them has taken a step.
Init ==
    /\ \/ /\ cfg \in IterConfigs \cup LongConfigs
          /\ budget = 0
       \/ /\ cfg \in WallConfigs
          /\ budget = WallBudget(cfg)
       \/ /\ cfg = LongWallConfig
          /\ budget = ChanFactor + Overflow
    /\ ctxDone = FALSE
    /\ src = [pc |-> "start", i |-> 0, si |-> 1, di |-> 1, job |-> NoJob]
    /\ jobs = <<>>
    /\ jobsClosed = FALSE
    /\ wk = [w \in Workers |-> [pc |-> "recv", job |-> NoJob, res |-> NoResult]]
    /\ wg = cfg.Concurrency
    /\ results = <<>>
    /\ resultsClosed = FALSE
    /\ completed = 0
    /\ closer = "wait"
    /\ allResults = <<>>
    /\ mainpc = "collect"
    /\ panicked = ""
    /\ sent = <<>>
    /\ lateSends = 0
    /\ taken = <<>>
    /\ published = <<>>
    /\ progressLog = <<>>
    /\ diag = 0
    /\ probes = [j \in JobsOf(cfg) |-> 0]
    /\ StatsIdle
    /\ ClientIdle
    /\ ConfigIdle

\* ------------------------------------------------------------- job source
\* Variant: the source samples until the deadline only when no iteration
\* count is given.
SourceStartIterationsFirst ==
    /\ Running
    /\ src.pc = "start"
    /\ src' = [src EXCEPT !.pc = IF cfg.Duration > 0 /\ cfg.Iterations = 0
                                 THEN "select" ELSE "loop"]
    /\ UNCHANGED <<cfg, budget, ctxDone, jobs, jobsClosed, wk, wg, results,
                   resultsClosed, completed, closer, allResults, mainpc,
                   panicked, sent, lateSends, taken, published, progressLog,
                   diag, probes>>
    /\ UNCHANGED mainVars
    /\ UNCHANGED clientVars

\* go func() { if config.Duration > 0 { ctx := WithTimeout(...) ... } else ...
SourceStart ==
    /\ Running
    /\ src.pc = "start"
    /\ src' = [src EXCEPT !.pc = IF cfg.Duration > 0 THEN "select" ELSE "loop"]
    /\ UNCHANGED <<cfg, budget, ctxDone, jobs, jobsClosed, wk, wg, results,
                   resultsClosed, completed, closer, allResults, mainpc,
                   panicked, sent, lateSends, taken, published, progressLog,
                   diag, probes>>
    /\ UNCHANGED mainVars
    /\ UNCHANGED clientVars

\* The timer of context.WithTimeout fires and closes ctx.Done().
DeadlineFires ==
    /\ Running
    /\ cfg.Duration > 0
    /\ src.pc \in {"select", "emit"}
    /\ ~ctxDone
    /\ ctxDone' = TRUE
    /\ UNCHANGED <<cfg, budget, src, jobs, jobsClosed, wk, wg, results,
                   resultsClosed, completed, closer, allResults, mainpc,
                   panicked, sent, lateSends, taken, published, progressLog,
                   diag, probes>>
    /\ UNCHANGED mainVars
    /\ UNCHANGED clientVars

\* Variant: the iteration loop stops one round early (i < Iterations-1).
LoopHasNextOffByOne(c, pos) ==
    /\ pos.i + 1 < c.Iterations
    /\ pos.si <= Len(c.Servers)
    /\ pos.di <= Len(c.Domains)

\* The nested loops  for i < Iterations { for server { for domain {...}}}
\* have a body to execute at (i, si, di).
LoopHasNext(c, pos) ==
    /\ pos.i < c.Iterations
    /\ pos.si <= Len(c.Servers)
    /\ pos.di <= Len(c.Domains)

\* Variant: the loop over the servers is the inner loop.
LoopAdvanceDomainMajor(c, pos) ==
    IF pos.si < Len(c.Servers) THEN [pos EXCEPT !.si = pos.si + 1]
    ELSE IF pos.di < Len(c.Domains) THEN [pos EXCEPT !.di = pos.di + 1, !.si = 1]
    ELSE [pos EXCEPT !.i = pos.i + 1, !.si = 1, !.di = 1]

\* Loop indices after the body has run at (i, si, di).
LoopAdvance(c, pos) ==
    IF pos.di < Len(c.Domains) THEN [pos EXCEPT !.di = pos.di + 1]
    ELSE IF pos.si < Len(c.Servers) THEN [pos EXCEPT !.si = pos.si + 1, !.di = 1]
    ELSE [pos EXCEPT !.i = pos.i + 1, !.si = 1, !.di = 1]

\* Variant: the source returns without closing the job stream.
CloseJobsForgotten == UNCHANGED <<jobsClosed, panicked>>

\* close(jobs): closing a closed channel panics.
CloseJobs ==
    IF jobsClosed
    THEN /\ panicked' = "close of closed channel"
         /\ UNCHANGED jobsClosed
    ELSE /\ jobsClosed' = TRUE
         /\ UNCHANGED panicked

\* Iteration mode: jobs <- Job{Server: server, Domain: domain}; the send
\* blocks while the buffer is full.  After the loops: close(jobs).
SourceLoop ==
    /\ Running
    /\ src.pc = "loop"
    /\ IF LoopHasNext(cfg, src)
       THEN /\ Len(jobs) < bufferSize
            /\ LET job == Job(cfg.Servers[src.si], cfg.Domains[src.di])
               IN /\ IF jobsClosed
                     THEN /\ panicked' = "send on closed channel"
                          /\ UNCHANGED <<jobs, sent>>
                     ELSE /\ jobs' = Append(jobs, job)
                          /\ sent' = Append(sent, job)
                          /\ UNCHANGED panicked
            /\ src' = LoopAdvance(cfg, src)
            /\ UNCHANGED jobsClosed
       ELSE /\ CloseJobs
            /\ src' = [src EXCEPT !.pc = "done"]
            /\ UNCHANGED <<jobs, sent>>
    /\ UNCHANGED <<cfg, budget, ctxDone, wk, wg, results, resultsClosed,
                   completed, closer, allResults, mainpc, lateSends, taken,
                   published, progressLog, diag, probes>>
    /\ UNCHANGED mainVars
    /\ UNCHANGED clientVars

\* Variant: on ctx.Done() the outer select returns without close(jobs).
SourceSelectNoClose ==
    /\ Running
    /\ src.pc = "select"
    /\ IF ctxDone
       THEN /\ src' = [src EXCEPT !.pc = "done"]
            /\ UNCHANGED <<jobsClosed, panicked>>
       ELSE /\ Len(sent) < budget
            /\ Len(cfg.Servers) > 0 /\ Len(cfg.Domains) > 0
            /\ \E sIdx \in 1..Len(cfg.Servers), dIdx \in 1..Len(cfg.Domains) :
                  src' = [src EXCEPT !.pc = "emit",
                              !.job = Job(cfg.Servers[sIdx], cfg.Domains[dIdx])]
            /\ UNCHANGED <<jobsClosed, panicked>>
    /\ UNCHANGED <<cfg, budget, ctxDone, jobs, wk, wg, results, resultsClosed,
                   completed, closer, allResults, mainpc, sent, lateSends,
                   taken, published, progressLog, diag, probes>>
    /\ UNCHANGED mainVars
    /\ UNCHANGED clientVars

\* Variant: the loop has no outer select; only the inner select looks at
\* ctx.Done().
SourceSelectNoCheck ==
    /\ Running
    /\ src.pc = "select"
    /\ Len(sent) < budget
    /\ Len(cfg.Servers) > 0 /\ Len(cfg.Domains) > 0
    /\ \E sIdx \in 1..Len(cfg.Servers), dIdx \in 1..Len(cfg.Domains) :
          src' = [src EXCEPT !.pc = "emit",
                      !.job = Job(cfg.Servers[sIdx], cfg.Domains[dIdx])]
    /\ UNCHANGED <<cfg, budget, ctxDone, jobs, jobsClosed, wk, wg, results,
                   resultsClosed, completed, closer, allResults, mainpc,
                   panicked, sent, lateSends, taken, published, progressLog,
                   diag, probes>>
    /\ UNCHANGED mainVars
    /\ UNCHANGED clientVars

\* WallClock mode, outer select: case <-ctx.Done(): close(jobs); return
\* default: sample a job.  rng.Intn(0) panics.
SourceSelect ==
    /\ Running
    /\ src.pc = "select"
    /\ IF ctxDone
       THEN /\ CloseJobs
            /\ src' = [src EXCEPT !.pc = "done"]
       ELSE /\ Len(sent) < budget
            /\ IF Len(cfg.Servers) = 0 \/ Len(cfg.Domains) = 0
               THEN /\ panicked' = "invalid argument to Intn"
                    /\ UNCHANGED src
               ELSE /\ \E sIdx \in 1..Len(cfg.Servers), dIdx \in 1..Len(cfg.Domains) :
                          src' = [src EXCEPT !.pc = "emit",
                                      !.job = Job(cfg.Servers[sIdx], cfg.Domains[dIdx])]
                    /\ UNCHANGED panicked
            /\ UNCHANGED jobsClosed
    /\ UNCHANGED <<cfg, budget, ctxDone, jobs, wk, wg, results, resultsClosed,
                   completed, closer, allResults, mainpc, sent, lateSends,
                   taken, published, progressLog, diag, probes>>
    /\ UNCHANGED mainVars
    /\ UNCHANGED clientVars

\* Variant: the inner select gives up (close(jobs); return) when the job
\* queue is full instead of waiting for the deadline.
SourceEmitCloseWhenFull ==
    /\ Running
    /\ src.pc = "emit"
    /\ IF Len(jobs) < bufferSize /\ ~ctxDone
       THEN /\ jobs' = Append(jobs, src.job)
            /\ sent' = Append(sent, src.job)
            /\ src' = [src EXCEPT !.pc = "select", !.job = NoJob]
            /\ UNCHANGED <<jobsClosed, panicked>>
       ELSE /\ CloseJobs
            /\ src' = [src EXCEPT !.pc = "done"]
            /\ UNCHANGED <<jobs, sent>>
    /\ UNCHANGED <<cfg, budget, ctxDone, wk, wg, results, resultsClosed,
                   completed, closer, allResults, mainpc, lateSends, taken,
                   published, progressLog, diag, probes>>
    /\ UNCHANGED mainVars
    /\ UNCHANGED clientVars

\* WallClock mode, inner select: case <-ctx.Done(): close(jobs); return
\* case jobs <- job.  When both cases are ready the runtime picks one.
SourceEmit ==
    /\ Running
    /\ src.pc = "emit"
    /\ \/ /\ ctxDone
          /\ CloseJobs
          /\ src' = [src EXCEPT !.pc = "done"]
          /\ UNCHANGED <<jobs, sent, lateSends>>
       \/ /\ Len(jobs) < bufferSize
          /\ IF jobsClosed
             THEN /\ panicked' = "send on closed channel"
                  /\ UNCHANGED <<jobs, sent, lateSends>>
             ELSE /\ jobs' = Append(jobs, src.job)
                  /\ sent' = Append(sent, src.job)
                  /\ lateSends' = IF ctxDone THEN lateSends + 1 ELSE lateSends
                  /\ UNCHANGED panicked
          /\ src' = [src EXCEPT !.pc = "select", !.job = NoJob]
          /\ UNCHANGED jobsClosed
    /\ UNCHANGED <<cfg, budget, ctxDone, wk, wg, results, resultsClosed,
                   completed, closer, allResults, mainpc, taken, published,
                   progressLog, diag, probes>>
    /\ UNCHANGED mainVars
    /\ UNCHANGED clientVars

\* ----------------------------------------------------------------- channels
\* Variant: a range loop ends as soon as the channel is closed, whatever is
\* still buffered.
RangeEndsOnClose(buf, closed) == closed

\* Variant: a range loop ends as soon as the buffer is empty.
RangeEndsWhenEmpty(buf, closed) == Len(buf) = 0

\* for x := range ch ends when ch is closed and its buffer is drained.
RangeEnds(buf, closed) == Len(buf) = 0 /\ closed

\* ---------------------------------------------------------------- workers
\* Variant: the record of a failed probe does not name the server.
MeasureAnonymousOnError(server, domain) ==
    LET o == ProbeOutcome(server, domain)
    IN IF o.Error # "nil" THEN Result("", domain, o.Duration, o.Error)
       ELSE Result(server, domain, o.Duration, o.Error)

\* client.Measure(job.Server, job.Domain): the record carries the server and
\* the domain of the job, the elapsed time and the error of the probe.
Measure(server, domain) ==
    LET o == ProbeOutcome(server, domain)
    IN Result(server, domain, o.Duration, o.Error)

\* Variant: a success of exactly 500ms is reported as slow.
VerboseLinesAtThreshold(res) ==
    IF ~cfg.Verbose THEN 0
    ELSE IF res.Error # "nil" THEN 1
    ELSE IF res.Duration >= SlowThresholdMs THEN 1
    ELSE 0

\* if config.Verbose { if res.Error != nil {Printf} else if res.Duration >
\* 500*time.Millisecond {Printf} }: number of lines printed for res.
VerboseLines(res) ==
    IF ~cfg.Verbose THEN 0
    ELSE IF res.Error # "nil" THEN 1
    ELSE IF res.Duration > SlowThresholdMs THEN 1
    ELSE 0

\* for job := range jobs: receive the head of the buffer, or leave the loop
\* when the channel is closed and empty (defer wg.Done()).
WorkerRecv(w) ==
    /\ Running
    /\ w \in DOMAIN wk
    /\ wk[w].pc = "recv"
    /\ IF RangeEnds(jobs, jobsClosed)
       THEN /\ wk' = [wk EXCEPT ![w].pc = "done"]
            /\ wg' = wg - 1
            /\ UNCHANGED <<jobs, taken>>
       ELSE /\ Len(jobs) > 0
            /\ wk' = [wk EXCEPT ![w].pc = "measure", ![w].job = Head(jobs)]
            /\ jobs' = Tail(jobs)
            /\ taken' = Append(taken, Head(jobs))
            /\ UNCHANGED wg
    /\ UNCHANGED <<cfg, budget, ctxDone, src, jobsClosed, results, resultsClosed,
                   completed, closer, allResults, mainpc, panicked, sent,
                   lateSends, published, progressLog, diag, probes>>
    /\ UNCHANGED mainVars
    /\ UNCHANGED clientVars

\* Variant: the counter is advanced already when the probe has returned,
\* before the record is published, as well as after the publication.
WorkerMeasureCountsEarly(w) ==
    /\ Running
    /\ w \in DOMAIN wk
    /\ wk[w].pc = "measure"
    /\ LET res == Measure(wk[w].job.Server, wk[w].job.Domain)
       IN /\ wk' = [wk EXCEPT ![w].pc = "send", ![w].res = res]
          /\ diag' = diag + VerboseLines(res)
    /\ probes' = [probes EXCEPT ![wk[w].job] = @ + 1]
    /\ completed' = IF cfg.ShowProgress /\ totalJobs > 0
                    THEN completed + 1 ELSE completed
    /\ UNCHANGED <<cfg, budget, ctxDone, src, jobs, jobsClosed, wg, results,
                   resultsClosed, closer, allResults, mainpc,
                   panicked, sent, lateSends, taken, published, progressLog>>
    /\ UNCHANGED mainVars
    /\ UNCHANGED clientVars

\* res := client.Measure(job.Server, job.Domain), then the verbose report.
WorkerMeasure(w) ==
    /\ Running
    /\ w \in DOMAIN wk
    /\ wk[w].pc = "measure"
    /\ LET res == Measure(wk[w].job.Server, wk[w].job.Domain)
       IN /\ wk' = [wk EXCEPT ![w].pc = "send", ![w].res = res]
          /\ diag' = diag + VerboseLines(res)
    /\ probes' = [probes EXCEPT ![wk[w].job] = @ + 1]
    /\ UNCHANGED <<cfg, budget, ctxDone, src, jobs, jobsClosed, wg, results,
                   resultsClosed, completed, closer, allResults, mainpc,
                   panicked, sent, lateSends, taken, published, progressLog>>
    /\ UNCHANGED mainVars
    /\ UNCHANGED clientVars

\* Variant: the progress update follows whenever ShowProgress is set, whether
\* the total is known or not.
WorkerSendProgressAlways(w) ==
    /\ Running
    /\ w \in DOMAIN wk
    /\ wk[w].pc = "send"
    /\ Len(results) < bufferSize
    /\ IF resultsClosed
       THEN /\ panicked' = "send on closed channel"
            /\ UNCHANGED <<results, published, wk>>
       ELSE /\ results' = Append(results, wk[w].res)
            /\ published' = Append(published, wk[w].res)
            /\ wk' = [wk EXCEPT ![w].pc =
                        IF cfg.ShowProgress THEN "progress" ELSE "recv",
                      ![w].job = NoJob, ![w].res = NoResult]
            /\ UNCHANGED panicked
    /\ UNCHANGED <<cfg, budget, ctxDone, src, jobs, jobsClosed, wg,
                   resultsClosed, completed, closer, allResults, mainpc, sent,
                   lateSends, taken, progressLog, diag, probes>>
    /\ UNCHANGED mainVars
    /\ UNCHANGED clientVars

\* Variant: a worker that has published the record of a failed probe leaves
\* its loop.
WorkerSendStopsOnFailure(w) ==
    /\ Running
    /\ w \in DOMAIN wk
    /\ wk[w].pc = "send"
    /\ Len(results) < bufferSize
    /\ IF resultsClosed
       THEN /\ panicked' = "send on closed channel"
            /\ UNCHANGED <<results, published, wk, wg>>
       ELSE /\ results' = Append(results, wk[w].res)
            /\ published' = Append(published, wk[w].res)
            /\ wk' = [wk EXCEPT ![w].pc =
                        IF wk[w].res.Error # "nil" THEN "done"
                        ELSE IF cfg.ShowProgress /\ totalJobs > 0
                        THEN "progress" ELSE "recv",
                      ![w].job = NoJob, ![w].res = NoResult]
            /\ wg' = IF wk[w].res.Error # "nil" THEN wg - 1 ELSE wg
            /\ UNCHANGED panicked
    /\ UNCHANGED <<cfg, budget, ctxDone, src, jobs, jobsClosed,
                   resultsClosed, completed, closer, allResults, mainpc, sent,
                   lateSends, taken, progressLog, diag, probes>>
    /\ UNCHANGED mainVars
    /\ UNCHANGED clientVars

\* results <- res: blocks while the buffer is full, panics on a closed
\* channel.  The progress update follows when it is enabled.
WorkerSend(w) ==
    /\ Running
    /\ w \in DOMAIN wk
    /\ wk[w].pc = "send"
    /\ Len(results) < bufferSize
    /\ IF resultsClosed
       THEN /\ panicked' = "send on closed channel"
            /\ UNCHANGED <<results, published, wk>>
       ELSE /\ results' = Append(results, wk[w].res)
            /\ published' = Append(published, wk[w].res)
            /\ wk' = [wk EXCEPT ![w].pc =
                        IF cfg.ShowProgress /\ totalJobs > 0
                        THEN "progress" ELSE "recv",
                      ![w].job = NoJob, ![w].res = NoResult]
            /\ UNCHANGED panicked
    /\ UNCHANGED <<cfg, budget, ctxDone, src, jobs, jobsClosed, wg,
                   resultsClosed, completed, closer, allResults, mainpc, sent,
                   lateSends, taken, progressLog, diag, probes>>
    /\ UNCHANGED mainVars
    /\ UNCHANGED clientVars

\* Variant: the update is not under the mutex: two workers that update at
\* the same time may read the same value of completed and store the same
\* successor.
WorkerProgressUnlocked(w) ==
    /\ Running
    /\ w \in DOMAIN wk
    /\ wk[w].pc = "progress"
    /\ completed' = completed + 1
    /\ progressLog' =
          IF completed' % ProgressStep = 0 \/ completed' = totalJobs
          THEN Append(progressLog, completed')
          ELSE progressLog
    /\ \/ wk' = [wk EXCEPT ![w].pc = "recv"]
       \/ \E v \in DOMAIN wk \ {w} :
             /\ wk[v].pc = "progress"
             /\ wk' = [wk EXCEPT ![w].pc = "recv", ![v].pc = "recv"]
    /\ UNCHANGED <<cfg, budget, ctxDone, src, jobs, jobsClosed, wg, results,
                   resultsClosed, closer, allResults, mainpc, panicked, sent,
                   lateSends, taken, published, diag, probes>>
    /\ UNCHANGED mainVars
    /\ UNCHANGED clientVars

\* progressMu.Lock(); completed++; if completed%10 == 0 || completed ==
\* totalJobs { Printf }; progressMu.Unlock()
WorkerProgress(w) ==
    /\ Running
    /\ w \in DOMAIN wk
    /\ wk[w].pc = "progress"
    /\ completed' = completed + 1
    /\ progressLog' =
          IF completed' % ProgressStep = 0 \/ completed' = totalJobs
          THEN Append(progressLog, completed')
          ELSE progressLog
    /\ wk' = [wk EXCEPT ![w].pc = "recv"]
    /\ UNCHANGED <<cfg, budget, ctxDone, src, jobs, jobsClosed, wg, results,
                   resultsClosed, closer, allResults, mainpc, panicked, sent,
                   lateSends, taken, published, diag, probes>>
    /\ UNCHANGED mainVars
    /\ UNCHANGED clientVars

\* ----------------------------------------------------------------- closer
\* Variant: the closer does not wait for the pool.
WaitReturnsAtOnce == TRUE

\* Variant: the closer also waits until the source has closed the job stream.
WaitReturnsAfterSource == wg = 0 /\ jobsClosed

\* wg.Wait() returns when the counter of the WaitGroup is zero.
WaitReturns == wg = 0

\* go func() { wg.Wait(); ...; close(results) }()
CloserClose ==
    /\ Running
    /\ closer = "wait"
    /\ WaitReturns
    /\ closer' = "done"
    /\ IF resultsClosed
       THEN /\ panicked' = "close of closed channel"
            /\ UNCHANGED resultsClosed
       ELSE /\ resultsClosed' = TRUE
            /\ UNCHANGED panicked
    /\ UNCHANGED <<cfg, budget, ctxDone, src, jobs, jobsClosed, wk, wg, results,
                   completed, allResults, mainpc, sent, lateSends, taken,
                   published, progressLog, diag, probes>>
    /\ UNCHANGED mainVars
    /\ UNCHANGED clientVars

\* -------------------------------------------------------------- collector
\* Variant: the collector puts a record in front of the list.
CollectedFront(list, res) == <<res>> \o list

\* allResults = append(allResults, res)
Collected(list, res) == Append(list, res)

\* for res := range results { allResults = append(allResults, res) }
\* return allResults
Collect ==
    /\ Running
    /\ mainpc = "collect"
    /\ IF RangeEnds(results, resultsClosed)
       THEN /\ mainpc' = "returned"
            /\ UNCHANGED <<allResults, results>>
       ELSE /\ Len(results) > 0
            /\ allResults' = Collected(allResults, Head(results))
            /\ results' = Tail(results)
            /\ UNCHANGED mainpc
    /\ UNCHANGED <<cfg, budget, ctxDone, src, jobs, jobsClosed, wk, wg,
                   resultsClosed, completed, closer, sent, lateSends, taken,
                   published, progressLog, diag, panicked, probes>>
    /\ UNCHANGED mainVars
    /\ UNCHANGED clientVars

\* ---------------------------------------------------------- specification
Next ==
    \/ SourceStart
    \/ DeadlineFires
    \/ SourceLoop
    \/ SourceSelect
    \/ SourceEmit
    \/ \E w \in 1..MaxConcurrency : WorkerRecv(w)
    \/ \E w \in 1..MaxConcurrency : WorkerMeasure(w)
    \/ \E w \in 1..MaxConcurrency : WorkerSend(w)
    \/ \E w \in 1..MaxConcurrency : WorkerProgress(w)
    \/ CloserClose
    \/ Collect

Spec == Init /\ [][Next]_vars

\* Every goroutine that can take a step eventually takes one, every probe
\* returns and the deadline timer fires.
Fairness ==
    /\ WF_vars(SourceStart)
    /\ WF_vars(DeadlineFires)
    /\ WF_vars(SourceLoop)
    /\ WF_vars(SourceSelect)
    /\ WF_vars(SourceEmit)
    /\ \A w \in 1..MaxConcurrency :
          /\ WF_vars(WorkerRecv(w))
          /\ WF_vars(WorkerMeasure(w))
          /\ WF_vars(WorkerSend(w))
          /\ WF_vars(WorkerProgress(w))
    /\ WF_vars(CloserClose)
    /\ WF_vars(Collect)

FairSpec == Spec /\ Fairness

\* ------------------------------------------------------------ calculateStats
\* (src/main.go)  Durations are whole milliseconds.  LossPct is a float64 in
\* the code; here it is the exact fraction in lowest terms, so the rounding
\* of the floating-point division and multiplication is not modelled.
RECURSIVE GCD(_, _)
GCD(a, b) == IF b = 0 THEN a ELSE GCD(b, a % b)

Ratio(n, d) == [num |-> n \div GCD(n, d), den |-> d \div GCD(n, d)]

\* float64(errors) / float64(total) * 100
Percent(errors, total) == Ratio(errors * 100, total)

\* s = &ServerStats{Server: res.Server, Min: time.Hour}
NewStats(server) ==
    [Server |-> server, Total |-> 0, Success |-> 0, Errors |-> 0,
     Min |-> HourMs, Max |-> 0, TotalTime |-> 0, Avg |-> 0,
     LossPct |-> Ratio(0, 1)]

\* Variant: Min of a new entry starts at the Duration of the first record of
\* the server, successful or not.
AccumulateMinFromFirst(statsMap, res) ==
    LET s == IF res.Server \in DOMAIN statsMap
             THEN statsMap[res.Server]
             ELSE [NewStats(res.Server) EXCEPT !.Min = res.Duration]
        t == [s EXCEPT !.Total = @ + 1]
        u == IF res.Error # "nil"
             THEN [t EXCEPT !.Errors = @ + 1]
             ELSE [t EXCEPT !.Success = @ + 1,
                            !.TotalTime = @ + res.Duration,
                            !.Min = IF res.Duration < @ THEN res.Duration ELSE @,
                            !.Max = IF res.Duration > @ THEN res.Duration ELSE @]
    IN [k \in DOMAIN statsMap \cup {res.Server} |->
            IF k = res.Server THEN u ELSE statsMap[k]]

\* Variant: only successful records are counted in Total.
AccumulateTotalOnSuccess(statsMap, res) ==
    LET s == IF res.Server \in DOMAIN statsMap
             THEN statsMap[res.Server] ELSE NewStats(res.Server)
        u == IF res.Error # "nil"
             THEN [s EXCEPT !.Errors = @ + 1]
             ELSE [s EXCEPT !.Total = @ + 1,
                            !.Success = @ + 1,
                            !.TotalTime = @ + res.Duration,
                            !.Min = IF res.Duration < @ THEN res.Duration ELSE @,
                            !.Max = IF res.Duration > @ THEN res.Duration ELSE @]
    IN [k \in DOMAIN statsMap \cup {res.Server} |->
            IF k = res.Server THEN u ELSE statsMap[k]]

\* Body of  for _, res := range results : look up or create the entry of
\* res.Server, count the record, and for a success add its Duration to
\* TotalTime and update Min and Max.
Accumulate(statsMap, res) ==
    LET s == IF res.Server \in DOMAIN statsMap
             THEN statsMap[res.Server] ELSE NewStats(res.Server)
        t == [s EXCEPT !.Total = @ + 1]
        u == IF res.Error # "nil"
             THEN [t EXCEPT !.Errors = @ + 1]
             ELSE [t EXCEPT !.Success = @ + 1,
                            !.TotalTime = @ + res.Duration,
                            !.Min = IF res.Duration < @ THEN res.Duration ELSE @,
                            !.Max = IF res.Duration > @ THEN res.Duration ELSE @]
    IN [k \in DOMAIN statsMap \cup {res.Server} |->
            IF k = res.Server THEN u ELSE statsMap[k]]

\* statsMap after the loop over the first n records.
RECURSIVE StatsMapAfter(_, _)
StatsMapAfter(recs, n) ==
    IF n = 0 THEN <<>>
    ELSE Accumulate(StatsMapAfter(recs, n - 1), recs[n])

\* Variant: the average is taken over all records of the server.
FinaliseAvgOverTotal(s) ==
    [s EXCEPT !.Avg = IF s.Success > 0 THEN s.TotalTime \div s.Total ELSE @,
              !.LossPct = Percent(s.Errors, s.Total),
              !.Min = IF s.Success = 0 THEN 0 ELSE @]

\* Variant: Min keeps its initial value when the server has no success.
FinaliseKeepsSentinel(s) ==
    [s EXCEPT !.Avg = IF s.Success > 0 THEN s.TotalTime \div s.Success ELSE @,
              !.LossPct = Percent(s.Errors, s.Total)]

\* Body of  for _, s := range statsMap : Avg, LossPct, and Min = 0 when the
\* server has no success.
Finalise(s) ==
    [s EXCEPT !.Avg = IF s.Success > 0 THEN s.TotalTime \div s.Success ELSE @,
              !.LossPct = Percent(s.Errors, s.Total),
              !.Min = IF s.Success = 0 THEN 0 ELSE @]

\* Variant: the comparator looks at the average only.
LessByAvgOnly(a, b) == a.Avg < b.Avg

\* The comparator given to sort.Slice.
Less(a, b) ==
    IF a.Success > 0 /\ b.Success = 0 THEN TRUE
    ELSE IF a.Success = 0 /\ b.Success > 0 THEN FALSE
    ELSE a.Avg < b.Avg

\* sort.Slice over the entries of the map: the map is ranged over in any
\* order and the sort is not stable, so the result is any arrangement of the
\* entries in which no entry is less than one placed before it.
SortedArrangements(entries) ==
    LET n == Cardinality(DOMAIN entries)
        perms == {p \in [1..n -> DOMAIN entries] :
                     \A i, j \in 1..n : i # j => p[i] # p[j]}
        lists == {[i \in 1..n |-> entries[p[i]]] : p \in perms}
    IN {l \in lists : \A i, j \in 1..n : i < j => ~Less(l[j], l[i])}

\* The entries of the list calculateStats(results) returns, by server.
StatsOf(recs) ==
    LET statsMap == StatsMapAfter(recs, Len(recs))
    IN [k \in DOMAIN statsMap |-> Finalise(statsMap[k])]

\* The lists calculateStats(results) can return.
calculateStats(recs) ==
    LET statsMap == StatsMapAfter(recs, Len(recs))
    IN SortedArrangements([k \in DOMAIN statsMap |-> Finalise(statsMap[k])])

\* Elapsed times of the records given to calculateStats: two short ones whose
\* sum is odd, and one longer than an hour.
DurationValues == {5, 20, HourMs + 5}

\* Records of up to MaxServers servers, successful or not, with any of the
\* elapsed times.
RecordValues ==
    {Result(ServerName(k), DomainName(1), d, e) :
        k \in 1..MaxServers, d \in DurationValues, e \in {"nil", "i/o timeout"}}

RecordLists == UNION {[1..n -> RecordValues] : n \in 0..MaxRecords}

\* Run has returned: the run of the empty configuration.
RunOver ==
    /\ cfg = Config(0, 0, 0, 0, 0, FALSE, FALSE)
    /\ budget = 0
    /\ ctxDone = FALSE
    /\ src = [pc |-> "done", i |-> 0, si |-> 1, di |-> 1, job |-> NoJob]
    /\ jobs = <<>>
    /\ jobsClosed = TRUE
    /\ wk = <<>>
    /\ wg = 0
    /\ results = <<>>
    /\ resultsClosed = TRUE
    /\ completed = 0
    /\ closer = "done"
    /\ allResults = <<>>
    /\ mainpc = "returned"
    /\ panicked = ""
    /\ sent = <<>>
    /\ lateSends = 0
    /\ taken = <<>>
    /\ published = <<>>
    /\ progressLog = <<>>
    /\ diag = 0
    /\ probes = <<>>

\* Run has returned and main is about to call calculateStats on a list of
\* records.
StatsInit ==
    /\ RunOver
    /\ ClientIdle
    /\ ConfigIdle
    /\ records \in RecordLists
    /\ stats = <<>>
    /\ statspc = "call"

\* stats := calculateStats(results)
CalculateStats ==
    /\ statspc = "call"
    /\ stats' \in calculateStats(records)
    /\ statspc' = "done"
    /\ UNCHANGED records
    /\ UNCHANGED optVars
    /\ UNCHANGED runVars
    /\ UNCHANGED clientVars

StatsNext == CalculateStats

StatsSpec == StatsInit /\ [][StatsNext]_vars

\* ------------------------------------------------------------ Client.Measure
\* (src/benchmark/benchmark.go)  A server identifier is a string, here the
\* sequence of its characters.
HttpsPrefix == <<"h", "t", "t", "p", "s", ":", "/", "/">>
TlsPrefix == <<"t", "l", "s", ":", "/", "/">>
Colon == <<":">>
DnsPort == <<"5", "3">>
TlsPort == <<"8", "5", "3">>

\* strings.HasPrefix(s, prefix)
HasPrefix(s, prefix) ==
    Len(s) >= Len(prefix) /\ SubSeq(s, 1, Len(prefix)) = prefix

\* strings.TrimPrefix(s, prefix)
TrimPrefix(s, prefix) ==
    IF HasPrefix(s, prefix) THEN SubSeq(s, Len(prefix) + 1, Len(s)) ELSE s

\* strings.Contains(s, ":")
ContainsColon(s) == \E k \in DOMAIN s : s[k] = ":"

\* if !strings.Contains(host, ":") { host += ":" + port }
WithDefaultPort(host, port) ==
    IF ~ContainsColon(host) THEN host \o Colon \o port ELSE host

\* The switch of Measure: the transport and the address or URL given to it.
Dispatch(server) ==
    IF HasPrefix(server, HttpsPrefix)
    THEN [transport |-> "https", addr |-> server]
    ELSE IF HasPrefix(server, TlsPrefix)
    THEN [transport |-> "tcp-tls",
          addr |-> WithDefaultPort(TrimPrefix(server, TlsPrefix), TlsPort)]
    ELSE [transport |-> "udp", addr |-> WithDefaultPort(server, DnsPort)]

\* The host and port client.Exchange dials for an address (net.SplitHostPort
\* of the Go library): the port follows the last colon; a host that contains
\* a colon must be in brackets.
NoTarget == [ok |-> FALSE, host |-> <<>>, port |-> <<>>]

SplitHostPort(addr) ==
    LET colons == {k \in DOMAIN addr : addr[k] = ":"}
        closes == {k \in DOMAIN addr : addr[k] = "]"}
    IN IF colons = {} THEN NoTarget
       ELSE LET i == CHOOSE k \in colons : \A m \in colons : m <= k
            IN IF addr[1] = "["
               THEN IF closes = {} THEN NoTarget
                    ELSE LET e == CHOOSE k \in closes : \A m \in closes : k <= m
                         IN IF e + 1 # i THEN NoTarget
                            ELSE [ok |-> TRUE, host |-> SubSeq(addr, 2, e - 1),
                                  port |-> SubSeq(addr, i + 1, Len(addr))]
               ELSE IF \E k \in colons : k < i THEN NoTarget
                    ELSE [ok |-> TRUE, host |-> SubSeq(addr, 1, i - 1),
                          port |-> SubSeq(addr, i + 1, Len(addr))]

\* Server identifiers of the model, by their parts: a scheme, a host (a
\* name, an IPv4 address or an IPv6 literal), a port or none, and for https
\* a path.  An IPv6 literal with a port is written in brackets.
HostName == <<"d", "n", "s">>
IPv4 == <<"1", ".", "1">>
IPv6 == <<"2", ":", ":", "8">>
NoPort == <<>>
GivenPort == <<"9">>
QueryPath == <<"/", "q">>

ServerId(scheme, host, port) == [scheme |-> scheme, host |-> host, port |-> port]

ServerIds ==
    {ServerId(s, h, q) : s \in {"", "tls"}, h \in {HostName, IPv4, IPv6},
                         q \in {NoPort, GivenPort}}
    \cup {ServerId("https", HostName, q) : q \in {NoPort, GivenPort}}

\* The string of an identifier.
Render(id) ==
    LET hostport == IF id.port = NoPort THEN id.host
                    ELSE IF ContainsColon(id.host)
                    THEN <<"[">> \o id.host \o <<"]">> \o Colon \o id.port
                    ELSE id.host \o Colon \o id.port
    IN IF id.scheme = "https" THEN HttpsPrefix \o hostport \o QueryPath
       ELSE IF id.scheme = "tls" THEN TlsPrefix \o hostport
       ELSE hostport

\* Identifiers of the servers probed by a pool of several callers.
PoolIds == {ServerId("https", HostName, NoPort), ServerId("", IPv4, NoPort)}

NewCaller(id) ==
    [pc |-> "call", id |-> id, server |-> Render(id), transport |-> "",
     addr |-> <<>>, target |-> NoTarget, used |-> 0]

\* Workers of one run are about to call Measure on the Client they share:
\* one caller with any identifier, or up to MaxConcurrency callers.  The
\* variables of Run and of main play no part: they hold the state of a
\* returned run.
ClientInit ==
    /\ RunOver
    /\ StatsIdle
    /\ ConfigIdle
    /\ \/ \E id \in ServerIds : callers = [w \in 1..1 |-> NewCaller(id)]
       \/ \E n \in 2..MaxConcurrency :
             \E ids \in [1..n -> PoolIds] :
                callers = [w \in 1..n |-> NewCaller(ids[w])]
    /\ httpClient = 0
    /\ created = 0

\* Measure up to the call of the transport: https goes on in measureDoH.
MeasureDispatch(w) ==
    /\ w \in DOMAIN callers
    /\ callers[w].pc = "call"
    /\ LET d == Dispatch(callers[w].server)
       IN callers' = [callers EXCEPT
                         ![w].pc = IF d.transport = "https" THEN "doh_check"
                                   ELSE "exchange",
                         ![w].transport = d.transport,
                         ![w].addr = d.addr]
    /\ UNCHANGED <<httpClient, created>>
    /\ UNCHANGED runVars
    /\ UNCHANGED mainVars

\* client.Exchange(m, host): the client dials the host and port of the
\* address.
MeasureExchange(w) ==
    /\ w \in DOMAIN callers
    /\ callers[w].pc = "exchange"
    /\ callers' = [callers EXCEPT ![w].pc = "done",
                                  ![w].target = SplitHostPort(callers[w].addr)]
    /\ UNCHANGED <<httpClient, created>>
    /\ UNCHANGED runVars
    /\ UNCHANGED mainVars

\* measureDoH: if c.httpClient == nil.  The field is read and written
\* without synchronisation: a caller sees nil while nothing was stored, and
\* may still see nil after another goroutine has stored a client.
DoHCheck(w) ==
    /\ w \in DOMAIN callers
    /\ callers[w].pc = "doh_check"
    /\ \/ /\ httpClient = 0
          /\ callers' = [callers EXCEPT ![w].pc = "doh_create"]
       \/ /\ httpClient # 0
          /\ \E next \in {"doh_create", "doh_do"} :
                callers' = [callers EXCEPT ![w].pc = next]
    /\ UNCHANGED <<httpClient, created>>
    /\ UNCHANGED runVars
    /\ UNCHANGED mainVars

\* measureDoH: c.httpClient = &http.Client{...}
DoHCreate(w) ==
    /\ w \in DOMAIN callers
    /\ callers[w].pc = "doh_create"
    /\ created' = created + 1
    /\ httpClient' = created'
    /\ callers' = [callers EXCEPT ![w].pc = "doh_do"]
    /\ UNCHANGED runVars
    /\ UNCHANGED mainVars

\* measureDoH: resp, err := c.httpClient.Do(req)
DoHDo(w) ==
    /\ w \in DOMAIN callers
    /\ callers[w].pc = "doh_do"
    /\ callers' = [callers EXCEPT ![w].pc = "done", ![w].used = httpClient]
    /\ UNCHANGED <<httpClient, created>>
    /\ UNCHANGED runVars
    /\ UNCHANGED mainVars

ClientNext ==
    \/ \E w \in 1..MaxConcurrency : MeasureDispatch(w)
    \/ \E w \in 1..MaxConcurrency : MeasureExchange(w)
    \/ \E w \in 1..MaxConcurrency : DoHCheck(w)
    \/ \E w \in 1..MaxConcurrency : DoHCreate(w)
    \/ \E w \in 1..MaxConcurrency : DoHDo(w)

ClientSpec == ClientInit /\ [][ClientNext]_vars

\* ------------------------------------------------ main: configuration
\* (src/main.go)  Resolution of the numeric options of the run: the config
\* file, then the flags, then the defaults.
DefaultConcurrency == 50
DefaultIterations == 1
DefaultTimeoutMs == 1000

\* Values a config file or a flag gives to an option: a negative number,
\* zero (also: not given) and a positive number.
OptionValues == {-1, 0, 2}

OptionSets ==
    {Options(c, n, t, d) : c \in OptionValues, n \in OptionValues,
                           t \in OptionValues, d \in OptionValues}

\* cfg = &Config{Concurrency: 50, Iterations: 1, Timeout: 1 * time.Second}
DefaultConfig == Options(DefaultConcurrency, DefaultIterations, DefaultTimeoutMs, 0)

\* if flag > 0 { cfg.Field = flag }
Override(value, flag) == IF flag > 0 THEN flag ELSE value

\* if cfg.Field == 0 { cfg.Field = default }
OrDefault(value, default) == IF value = 0 THEN default ELSE value

\* The flags are parsed and the config file, given or found, is loaded: cfg
\* is nil when there is none.
ConfigInit ==
    /\ RunOver
    /\ StatsIdle
    /\ ClientIdle
    /\ flagVals \in OptionSets
    /\ mainCfg \in {<<>>} \cup {<<o>> : o \in OptionSets}
    /\ runCfg = <<>>
    /\ cfgpc = "defaults"

\* if cfg == nil { cfg = &Config{...defaults...} }
SetDefaults ==
    /\ cfgpc = "defaults"
    /\ mainCfg' = IF mainCfg = <<>> THEN <<DefaultConfig>> ELSE mainCfg
    /\ cfgpc' = "flags"
    /\ UNCHANGED <<flagVals, runCfg>>
    /\ UNCHANGED statsVars
    /\ UNCHANGED runVars
    /\ UNCHANGED clientVars

\* CLI flags override config file.
ApplyFlags ==
    /\ cfgpc = "flags"
    /\ mainCfg' = <<Options(Override(mainCfg[1].Concurrency, flagVals.Concurrency),
                            Override(mainCfg[1].Iterations, flagVals.Iterations),
                            Override(mainCfg[1].Timeout, flagVals.Timeout),
                            Override(mainCfg[1].Duration, flagVals.Duration))>>
    /\ cfgpc' = "final"
    /\ UNCHANGED <<flagVals, runCfg>>
    /\ UNCHANGED statsVars
    /\ UNCHANGED runVars
    /\ UNCHANGED clientVars

\* Apply final defaults.
ApplyFinalDefaults ==
    /\ cfgpc = "final"
    /\ mainCfg' = <<Options(OrDefault(mainCfg[1].Concurrency, DefaultConcurrency),
                            OrDefault(mainCfg[1].Iterations, DefaultIterations),
                            OrDefault(mainCfg[1].Timeout, DefaultTimeoutMs),
                            mainCfg[1].Duration)>>
    /\ cfgpc' = "build"
    /\ UNCHANGED <<flagVals, runCfg>>
    /\ UNCHANGED statsVars
    /\ UNCHANGED runVars
    /\ UNCHANGED clientVars

\* config := benchmark.Config{Iterations: cfg.Iterations, ...};
\* results := benchmark.Run(config)
CallRun ==
    /\ cfgpc = "build"
    /\ runCfg' = <<Options(mainCfg[1].Concurrency, mainCfg[1].Iterations,
                           mainCfg[1].Timeout, mainCfg[1].Duration)>>
    /\ cfgpc' = "run"
    /\ UNCHANGED <<flagVals, mainCfg>>
    /\ UNCHANGED statsVars
    /\ UNCHANGED runVars
    /\ UNCHANGED clientVars

ConfigNext ==
    \/ SetDefaults
    \/ ApplyFlags
    \/ ApplyFinalDefaults
    \/ CallRun

ConfigSpec == ConfigInit /\ [][ConfigNext]_vars

\* ------------------------------------------------------------ properties
Returned == mainpc = "returned"

IterationMode == cfg.Duration = 0

WallClockMode == cfg.Duration > 0

\* Number of elements of seq for the pair (server, domain).
CountPair(seq, server, domain) ==
    Cardinality({i \in DOMAIN seq : seq[i].Server = server /\ seq[i].Domain = domain})

\* Workers that hold a job they have received and not yet published.
Holding == {w \in DOMAIN wk : wk[w].pc \in {"measure", "send"}}

AllWorkersDone == \A w \in DOMAIN wk : wk[w].pc = "done"

\* C1: in Iteration mode with concurrency >= 1 the list returned by Run holds
\* exactly S*D*n records and every pair of servers x domains occurs in
\* exactly n of them.
C1_IterationCrossProduct ==
    (Returned /\ IterationMode /\ cfg.Concurrency >= 1) =>
        /\ Len(allResults) = Len(cfg.Servers) * Len(cfg.Domains) * cfg.Iterations
        /\ \A si \in DOMAIN cfg.Servers, di \in DOMAIN cfg.Domains :
              CountPair(allResults, cfg.Servers[si], cfg.Domains[di]) = cfg.Iterations

C1_Witness ==
    /\ Returned
    /\ IterationMode
    /\ cfg.Concurrency = 2
    /\ Len(cfg.Servers) = 2
    /\ cfg.Iterations = 2
    /\ Len(allResults) = 4

\* C2: with concurrency >= 1, every job placed on the job stream is either
\* still buffered or was taken exactly once (the jobs taken followed by the
\* jobs buffered are the jobs sent, and every taken job is held by exactly
\* one worker or already published), and every job placed on the job stream
\* is eventually taken, also when the stream is closed at the deadline: time
\* and again all the jobs sent so far have been taken.
C2_EveryJobTakenOnce ==
    /\ [](cfg.Concurrency >= 1 =>
            /\ sent = taken \o jobs
            /\ Len(taken) = Len(published) + Cardinality(Holding))
    /\ []<>(cfg.Concurrency >= 1 => Len(taken) = Len(sent))

C2_Witness ==
    /\ WallClockMode
    /\ cfg.Concurrency = 2
    /\ ctxDone
    /\ jobsClosed
    /\ Len(sent) = 2
    /\ Len(taken) = Len(sent)
    /\ AllWorkersDone

\* C3: when Run returns, the returned list has as many records as jobs were
\* dequeued, one record per dequeued job, and no worker holds a job or an
\* unpublished record.
C3_RecordsMatchDequeued ==
    Returned =>
        /\ Len(allResults) = Len(taken)
        /\ Holding = {}
        /\ \A si \in DOMAIN cfg.Servers, di \in DOMAIN cfg.Domains :
              CountPair(allResults, cfg.Servers[si], cfg.Domains[di])
                  = CountPair(taken, cfg.Servers[si], cfg.Domains[di])

C3_Witness ==
    /\ Returned
    /\ WallClockMode
    /\ cfg.Concurrency = 2
    /\ Len(taken) = 2
    /\ Len(allResults) = 2
    /\ allResults[1].Domain # allResults[2].Domain

\* C4: the records published on the result stream are, in order, the records
\* collected so far followed by the records still buffered; Run returns only
\* when the result stream is closed and drained, and then the returned list
\* is the list of published records in publication order.
C4_CollectedInArrivalOrder ==
    /\ published = allResults \o results
    /\ Returned => (resultsClosed /\ results = <<>> /\ allResults = published)

C4_Witness ==
    /\ Returned
    /\ cfg.Concurrency = 2
    /\ Len(published) >= 3
    /\ allResults = published
    /\ \E i \in 1..(Len(allResults) - 1) : allResults[i] # allResults[i + 1]

\* C5: the result stream is closed only when every worker has terminated: in
\* no state is it closed while a worker is receiving, probing or publishing,
\* and no worker sends on the closed result stream.
C5_ResultsClosedAfterWorkers ==
    /\ resultsClosed => (AllWorkersDone /\ wg = 0)
    /\ ~(resultsClosed /\ \E w \in DOMAIN wk : wk[w].pc = "send")
    /\ panicked # "send on closed channel"

C5_Witness ==
    /\ resultsClosed
    /\ cfg.Concurrency = 2
    /\ Len(published) >= 2
    /\ AllWorkersDone

\* C6: in Iteration mode with concurrency >= 1 Run eventually returns, also
\* when the workload exceeds the capacity 10*concurrency of the two queues.
C6_IterationRunReturns ==
    (IterationMode /\ cfg.Concurrency >= 1) => <>Returned

\* The source is blocked on the full job queue while the worker is blocked
\* on the full result queue.
C6_Witness ==
    /\ IterationMode
    /\ cfg.Concurrency = 1
    /\ src.pc = "loop"
    /\ LoopHasNext(cfg, src)
    /\ Len(jobs) = bufferSize
    /\ Len(results) = bufferSize
    /\ wk[1].pc = "send"

\* C7: in WallClock mode with concurrency >= 1 and non-empty lists, once the
\* deadline has fired the source closes the job stream, the workers drain it
\* and exit, and Run returns.
C7_DeadlineLeadsToReturn ==
    (WallClockMode /\ cfg.Concurrency >= 1 /\ Len(cfg.Servers) > 0
        /\ Len(cfg.Domains) > 0 /\ ctxDone)
      ~> (jobsClosed /\ jobs = <<>> /\ AllWorkersDone /\ Returned)

\* The source was waiting for space on the full job queue with a sampled job
\* in hand when it saw the deadline and closed the job stream.
C7_Witness ==
    /\ WallClockMode
    /\ cfg.Concurrency = 1
    /\ ctxDone
    /\ jobsClosed
    /\ src.pc = "done"
    /\ src.job # NoJob
    /\ Len(jobs) = bufferSize

C9_NoProbeStartsAfterDeadline ==
    [][ctxDone => \A w \in DOMAIN wk :
                     ~(wk[w].pc = "recv" /\ wk'[w].pc = "measure")]_vars

\* C10: in WallClock mode with concurrency >= 1 nothing ends before the
\* deadline has fired: the job stream is not closed, no worker has exited,
\* the result stream is not closed and Run has not returned.
C10_NoReturnBeforeDeadline ==
    (WallClockMode /\ cfg.Concurrency >= 1 /\ ~ctxDone) =>
        /\ ~jobsClosed
        /\ \A w \in DOMAIN wk : wk[w].pc # "done"
        /\ ~resultsClosed
        /\ ~Returned

C10_Witness ==
    /\ WallClockMode
    /\ cfg.Concurrency = 2
    /\ ~ctxDone
    /\ Len(published) = 2
    /\ Len(allResults) = 2
    /\ \A w \in DOMAIN wk : wk[w].pc = "recv"
    /\ mainpc = "collect"

\* The server list or the domain list of the run is empty.
EmptyLists == Len(cfg.Servers) = 0 \/ Len(cfg.Domains) = 0

\* C11: with an empty server list or an empty domain list, in Iteration mode
\* and in WallClock mode alike, the run does not panic, the source places no
\* job on the job stream and only leaves by closing it, and the list Run
\* returns is empty.
C11_EmptyListsRunReturnsEmpty ==
    EmptyLists =>
        /\ panicked = ""
        /\ sent = <<>>
        /\ src.pc = "done" => jobsClosed
        /\ Returned => allResults = <<>>

\* Concurrency is zero and nothing else is degenerate.
ZeroPool ==
    /\ cfg.Concurrency = 0
    /\ ~EmptyLists
    /\ (cfg.Duration > 0 \/ cfg.Iterations > 0)

\* C12: with concurrency 0 and an otherwise non-degenerate configuration, in
\* either mode, the run never panics, no job is ever taken or probed, Run
\* eventually returns, and the list it returns is empty.
C12_ZeroConcurrencyReturnsEmpty ==
    /\ [](ZeroPool =>
            /\ panicked = ""
            /\ taken = <<>>
            /\ \A j \in DOMAIN probes : probes[j] = 0
            /\ Returned => allResults = <<>>)
    /\ (ZeroPool => <>Returned)

\* Run has returned while the iteration source still waits for a receiver of
\* its first job.
C12_Witness ==
    /\ ZeroPool
    /\ IterationMode
    /\ Returned
    /\ allResults = <<>>
    /\ src.pc = "loop"
    /\ LoopHasNext(cfg, src)
    /\ sent = <<>>

\* res.Error != nil
Failed(res) == res.Error # "nil"

\* Workers that have probed job j and not yet published its record.
Probed(j) == {w \in DOMAIN wk : wk[w].pc = "send" /\ wk[w].job = j}

\* C13: every dequeued job is probed at most once and, once its worker is
\* back at the head of its loop, exactly once, whatever the outcome; each
\* probe gives exactly one record, which carries the outcome of that probe;
\* and the step that publishes the record of a failed probe has no other
\* effect: the worker goes on with its loop, no other worker changes, nothing
\* is put back on the job stream, the pool stays as large and nothing panics.
C13_FailureIsOneRecord ==
    /\ [](\A j \in DOMAIN probes :
            /\ probes[j] = CountPair(published, j.Server, j.Domain)
                             + Cardinality(Probed(j))
            /\ probes[j] <= CountPair(taken, j.Server, j.Domain)
            /\ Holding = {} => probes[j] = CountPair(taken, j.Server, j.Domain))
    /\ [](\A i \in DOMAIN published :
            published[i] = Measure(published[i].Server, published[i].Domain))
    /\ [][\A w \in DOMAIN wk :
            (wk[w].pc = "send" /\ Failed(wk[w].res) /\ wk'[w] # wk[w]) =>
                /\ published' = Append(published, wk[w].res)
                /\ wk'[w].pc \in {"recv", "progress"}
                /\ \A v \in DOMAIN wk \ {w} : wk'[v] = wk[v]
                /\ jobs' = jobs
                /\ sent' = sent
                /\ wg' = wg
                /\ panicked' = panicked]_vars

\* The only worker of the pool published the record of a failed probe and
\* then went on to probe the jobs that followed.
C13_Witness ==
    /\ cfg.Concurrency = 1
    /\ Returned
    /\ Len(allResults) = 4
    /\ Failed(allResults[2])
    /\ ~Failed(allResults[3])
    /\ Failed(allResults[4])
    /\ \A j \in DOMAIN probes : probes[j] = 2

\* The jobs of the loops  for i < Iterations { for server { for domain } } }
\* in the order of their enumeration.
CrossProduct(c) ==
    LET S == Len(c.Servers)
        D == Len(c.Domains)
    IN [k \in 1..(S * D * c.Iterations) |->
            Job(c.Servers[(((k - 1) \div D) % S) + 1],
                c.Domains[((k - 1) % D) + 1])]

\* The iteration source waits to send a job while the job queue has no room
\* and every worker has left (or none was started): no receive will follow.
SourceStuck ==
    /\ src.pc = "loop"
    /\ LoopHasNext(cfg, src)
    /\ Len(jobs) >= bufferSize
    /\ AllWorkersDone

\* C14: in Iteration mode the source closes the job stream once (no second
\* close), only when all S*D*n jobs of the repeated cross-product have been
\* placed on it, and for every configuration it gets there: it is never left
\* waiting on a send that no worker will receive.
C14_IterationSourceCloses ==
    IterationMode =>
        /\ panicked # "close of closed channel"
        /\ jobsClosed => (src.pc = "done" /\ sent = CrossProduct(cfg))
        /\ ~SourceStuck

\* a is an initial segment of b.
IsPrefix(a, b) == Len(a) <= Len(b) /\ a = SubSeq(b, 1, Len(a))

\* C15: the source runs its sampling loop (WallClock mode) only when
\* Duration > 0 and its iteration loops only when Duration = 0.  In WallClock
\* mode the iteration loops never run, every job is a pair of the two lists,
\* and the source leaves only when the deadline has fired, whatever the
\* number of jobs it has placed and whatever Iterations is.  In Iteration
\* mode the jobs placed are at every moment an initial segment of the
\* cross-product enumerated Iterations times, and all of it once the source
\* has left.
C15_ModeByDuration ==
    /\ src.pc \in {"select", "emit"} => cfg.Duration > 0
    /\ src.pc = "loop" => cfg.Duration = 0
    /\ WallClockMode =>
          /\ src.i = 0 /\ src.si = 1 /\ src.di = 1
          /\ \A k \in DOMAIN sent : sent[k] \in JobsOf(cfg)
          /\ src.pc = "done" => ctxDone
          /\ totalJobs = 0
    /\ IterationMode =>
          /\ ~ctxDone
          /\ IsPrefix(sent, CrossProduct(cfg))
          /\ src.pc = "done" => sent = CrossProduct(cfg)
          /\ totalJobs = Len(CrossProduct(cfg))

\* A WallClock run with Iterations > 0 has placed more jobs than the
\* cross-product enumerated Iterations times has, and then met its deadline.
C15_Witness ==
    /\ WallClockMode
    /\ cfg.Iterations = MaxIterations
    /\ cfg.Concurrency >= 1
    /\ src.pc = "done"
    /\ Len(sent) > Len(CrossProduct(cfg))
    /\ Returned

\* calculateStats has returned.
StatsDone == statspc = "done"

\* Servers occurring in a list of records, and the positions of the records
\* of one server: all of them, the failed ones, the successful ones.
ServersIn(recs) == {recs[i].Server : i \in DOMAIN recs}

RecordsOf(recs, server) == {i \in DOMAIN recs : recs[i].Server = server}

FailuresOf(recs, server) == {i \in RecordsOf(recs, server) : Failed(recs[i])}

SuccessesOf(recs, server) == {i \in RecordsOf(recs, server) : ~Failed(recs[i])}

\* Sum of the Durations of the records at the positions idx.
RECURSIVE SumDurations(_, _)
SumDurations(recs, idx) ==
    IF idx = {} THEN 0
    ELSE LET i == CHOOSE i \in idx : TRUE
         IN recs[i].Duration + SumDurations(recs, idx \ {i})

\* C16: the list calculateStats returns has exactly one entry for each server
\* occurring in the records (none for the empty list of records), and in the
\* entry of a server Total is the number of its records, Errors the number of
\* its failed records, Success = Total - Errors and LossPct = Errors / Total
\* * 100.
C16_OneEntryPerServerWithCounts ==
    StatsDone =>
        /\ Len(stats) = Cardinality(ServersIn(records))
        /\ {stats[i].Server : i \in DOMAIN stats} = ServersIn(records)
        /\ \A i \in DOMAIN stats :
              LET s == stats[i]
                  total == Cardinality(RecordsOf(records, s.Server))
                  errors == Cardinality(FailuresOf(records, s.Server))
              IN /\ s.Total = total
                 /\ s.Errors = errors
                 /\ s.Success = total - errors
                 /\ s.LossPct.den > 0
                 /\ s.LossPct.num * total = errors * 100 * s.LossPct.den

\* Two servers, one of them with a failed record among its three, the other
\* with none.
C16_Witness ==
    /\ StatsDone
    /\ Len(records) = 3
    /\ Len(stats) = 2
    /\ \E i \in DOMAIN stats :
          stats[i].Total = 2 /\ stats[i].Errors = 1 /\ stats[i].LossPct = Ratio(50, 1)

\* C17: for every server with at least one successful record, whatever the
\* elapsed times, Min is the smallest and Max the largest Duration of its
\* successful records.
C17_MinMaxOverSuccesses ==
    StatsDone =>
        \A i \in DOMAIN stats :
            LET ok == SuccessesOf(records, stats[i].Server)
            IN ok # {} =>
                 /\ \E k \in ok : stats[i].Min = records[k].Duration
                 /\ \A k \in ok : stats[i].Min <= records[k].Duration
                 /\ \E k \in ok : stats[i].Max = records[k].Duration
                 /\ \A k \in ok : stats[i].Max >= records[k].Duration

\* C18: for every server with Success >= 1, Avg is the sum of the Durations
\* of its successful records divided by Success, by integer division; failed
\* records count neither in the sum nor in the divisor.
C18_AvgOverSuccesses ==
    StatsDone =>
        \A i \in DOMAIN stats :
            LET ok == SuccessesOf(records, stats[i].Server)
            IN stats[i].Success >= 1 =>
                 /\ stats[i].Success = Cardinality(ok)
                 /\ stats[i].Avg = SumDurations(records, ok) \div Cardinality(ok)

\* A server with two successes whose sum is odd and with a failed record of
\* another Duration.
C18_Witness ==
    /\ StatsDone
    /\ Len(records) = 3
    /\ \E i \in DOMAIN stats :
          /\ stats[i].Success = 2
          /\ stats[i].Errors = 1
          /\ stats[i].TotalTime = 25
          /\ stats[i].Avg = 12
          /\ \E k \in FailuresOf(records, stats[i].Server) : records[k].Duration = 20

\* C19: a server all of whose records are failures is reported with Success
\* 0, Min 0, Max 0, Avg 0 and LossPct 100.
C19_AllFailuresEntry ==
    StatsDone =>
        \A i \in DOMAIN stats :
            SuccessesOf(records, stats[i].Server) = {} =>
                /\ stats[i].Success = 0
                /\ stats[i].Min = 0
                /\ stats[i].Max = 0
                /\ stats[i].Avg = 0
                /\ stats[i].LossPct = Ratio(100, 1)

\* A server with two failed records of non-zero Duration and no other.
C19_Witness ==
    /\ StatsDone
    /\ \E i \in DOMAIN stats :
          /\ stats[i].Total = 2
          /\ stats[i].Errors = 2
          /\ \A k \in RecordsOf(records, stats[i].Server) : records[k].Duration = 20

\* C20: in the list calculateStats returns, an entry with at least one
\* success stands before every entry with none, and of two entries with at
\* least one success the one with the strictly lower Avg stands first.
C20_Ranking ==
    StatsDone =>
        \A i, j \in DOMAIN stats :
            /\ (stats[i].Success >= 1 /\ stats[j].Success = 0) => i < j
            /\ (stats[i].Success >= 1 /\ stats[j].Success >= 1
                  /\ stats[i].Avg < stats[j].Avg) => i < j

\* The server of the first record has no success and is ranked last, after a
\* server that has one.
C20_Witness ==
    /\ StatsDone
    /\ Len(stats) = 2
    /\ stats[1].Success >= 1
    /\ stats[2].Success = 0
    /\ records[1].Server = stats[2].Server

\* The list recs with the records at positions i and j exchanged.
Exchanged(recs, i, j) ==
    [k \in DOMAIN recs |-> IF k = i THEN recs[j] ELSE IF k = j THEN recs[i] ELSE recs[k]]

\* C21: the entries of the list calculateStats returned for the records are
\* the per-server statistics of the records, and exchanging any two records
\* of the list leaves these statistics as they are: the same servers, each
\* with the same Total, Success, Errors, Min, Max, Avg and LossPct.  Every
\* permutation is a succession of exchanges and every list of records is
\* checked, so the statistics of all permutations of a list are the same.
C21_OrderIndependent ==
    StatsDone =>
        LET entries == StatsOf(records)
        IN /\ DOMAIN entries = {stats[i].Server : i \in DOMAIN stats}
           /\ \A i \in DOMAIN stats : entries[stats[i].Server] = stats[i]
           /\ \A i, j \in DOMAIN records :
                 i < j => StatsOf(Exchanged(records, i, j)) = entries

\* Three records of one server that differ from one another: a success
\* between a failure and a slower success.
C21_Witness ==
    /\ StatsDone
    /\ Len(records) = 3
    /\ Len(stats) = 1
    /\ Failed(records[1]) /\ records[1].Duration = 5
    /\ ~Failed(records[2]) /\ records[2].Duration = 20
    /\ ~Failed(records[3]) /\ records[3].Duration = HourMs + 5

\* The records of the jobs of the iteration loops, probed one after the
\* other in the order of their enumeration.
SequentialResults(c) ==
    [k \in DOMAIN CrossProduct(c) |->
        Measure(CrossProduct(c)[k].Server, CrossProduct(c)[k].Domain)]

\* C22: in Iteration mode, with probe outcomes that depend on the pair
\* (server, domain) only, the per-server statistics of the list Run returns
\* are those of the jobs probed one after the other in enumeration order,
\* for every concurrency >= 1 and every interleaving; a pool of one worker
\* returns exactly that list.
C22_StatsSameForEveryConcurrency ==
    (Returned /\ IterationMode /\ cfg.Concurrency >= 1) =>
        /\ StatsOf(allResults) = StatsOf(SequentialResults(cfg))
        /\ cfg.Concurrency = 1 => allResults = SequentialResults(cfg)

\* Two workers returned the four records of two servers and two domains in
\* another order than the enumeration.
C22_Witness ==
    /\ Returned
    /\ IterationMode
    /\ cfg.Concurrency = 2
    /\ Len(cfg.Servers) = 2
    /\ Len(allResults) = 4
    /\ allResults # SequentialResults(cfg)
    /\ allResults[1].Server = ServerName(2)

\* C24 (as stated): in every state of every run, when all workers have
\* returned the job stream is closed and holds no job.
C24_PoolDoneAfterJobsClosed ==
    AllWorkersDone => (jobsClosed /\ jobs = <<>>)

\* C24 (amended): in every state of every run with concurrency >= 1, when
\* all workers have returned, and so whenever the WaitGroup is at zero or the
\* result stream is closed, the job stream is closed and holds no job.
C24_StartedPoolDoneAfterJobsClosed ==
    cfg.Concurrency >= 1 =>
        /\ AllWorkersDone => (jobsClosed /\ jobs = <<>>)
        /\ wg = 0 => AllWorkersDone
        /\ resultsClosed => (jobsClosed /\ jobs = <<>>)

\* Both workers of a WallClock run have returned after the deadline and the
\* closer has not yet closed the result stream.
C24_Witness ==
    /\ cfg.Concurrency = 2
    /\ WallClockMode
    /\ AllWorkersDone
    /\ Len(taken) >= 2
    /\ jobsClosed
    /\ jobs = <<>>
    /\ ~resultsClosed

\* The values of completed up to k at which a progress line is printed, in
\* increasing order.
Reported(k) ==
    LET Due(v) == v % ProgressStep = 0 \/ v = totalJobs
    IN SelectSeq([v \in 1..k |-> v], Due)

\* Workers that have published a record and not yet counted it.
Counting == {w \in DOMAIN wk : wk[w].pc = "progress"}

\* C25: with ShowProgress in Iteration mode, a total T > 0 and at least one
\* worker, in every interleaving: completed counts every published record
\* whose worker has passed the update (no completion is lost), the values
\* printed are, in increasing order and once each, exactly the values of
\* completed reached so far that are multiples of 10 or equal to T, and when
\* Run returns completed is T and the last value printed is T.
C25_ProgressReports ==
    (cfg.ShowProgress /\ IterationMode /\ totalJobs > 0 /\ cfg.Concurrency >= 1) =>
        /\ completed = Len(published) - Cardinality(Counting)
        /\ progressLog = Reported(completed)
        /\ Returned =>
              /\ completed = totalJobs
              /\ progressLog # <<>>
              /\ progressLog[Len(progressLog)] = totalJobs

\* A run of more than twenty jobs has printed 10, 20 and its total.
C25_Witness ==
    /\ cfg.ShowProgress
    /\ IterationMode
    /\ Returned
    /\ totalJobs > 2 * ProgressStep
    /\ progressLog = <<ProgressStep, 2 * ProgressStep, totalJobs>>

\* C26: in WallClock mode, whatever ShowProgress is, the completed counter
\* keeps its initial value 0, no worker enters the progress update and no
\* progress line is printed.
C26_NoProgressInWallClock ==
    WallClockMode =>
        /\ totalJobs = 0
        /\ completed = 0
        /\ Counting = {}
        /\ progressLog = <<>>

\* A WallClock run with ShowProgress set has returned two records.
C26_Witness ==
    /\ WallClockMode
    /\ cfg.ShowProgress
    /\ Returned
    /\ Len(allResults) >= 2
    /\ completed = 0
    /\ progressLog = <<>>

\* A failure, or a success that took strictly more than 500ms.
Noteworthy(res) == Failed(res) \/ res.Duration > SlowThresholdMs

\* Number of probes made so far, over the jobs of the set js, whose outcome
\* is noteworthy.
RECURSIVE NoteworthyProbes(_)
NoteworthyProbes(js) ==
    IF js = {} THEN 0
    ELSE LET j == CHOOSE j \in js : TRUE
         IN (IF Noteworthy(Measure(j.Server, j.Domain)) THEN probes[j] ELSE 0)
              + NoteworthyProbes(js \ {j})

\* C27: Verbose only adds diagnostics.  The number of diagnostics printed is
\* the number of probes made whose outcome is a failure or a success slower
\* than 500ms when Verbose is set, and zero when it is not; a diagnostic is
\* printed only by the step of a worker that ends a probe, and that step
\* leaves the worker with the record of the probe, about to publish it, and
\* changes neither the two streams nor the lists of jobs taken, of records
\* published and of records collected, whether Verbose is set or not.
C27_VerboseOnlyAddsDiagnostics ==
    /\ [](diag = IF cfg.Verbose THEN NoteworthyProbes(DOMAIN probes) ELSE 0)
    /\ [][\A w \in DOMAIN wk :
            (wk[w].pc = "measure" /\ wk'[w] # wk[w]) =>
                /\ wk'[w] = [pc |-> "send", job |-> wk[w].job,
                             res |-> Measure(wk[w].job.Server, wk[w].job.Domain)]
                /\ diag' = diag + (IF cfg.Verbose /\ Noteworthy(wk'[w].res)
                                   THEN 1 ELSE 0)
                /\ UNCHANGED <<jobs, jobsClosed, results, resultsClosed,
                               sent, taken, published, allResults, wg>>]_vars
    /\ [][diag' # diag =>
            \E w \in DOMAIN wk : wk[w].pc = "measure" /\ wk'[w].pc = "send"]_vars

\* A verbose run of two servers and two domains has returned: the two
\* failures and the one success slower than 500ms were reported, the success
\* of exactly 500ms was not.
C27_Witness ==
    /\ cfg.Verbose
    /\ Returned
    /\ Len(cfg.Servers) = 2
    /\ Len(cfg.Domains) = 2
    /\ Len(allResults) = 4
    /\ diag = 3

\* C28: in Iteration mode the k-th job placed on the job stream is fixed by
\* the configuration: within one round the jobs come server by server, and
\* for each server domain by domain in list order; the round of S*D jobs is
\* repeated, at most Iterations times; the order is the same in every run.
C28_ServerMajorDomainMinor ==
    IterationMode =>
        LET S == Len(cfg.Servers)
            D == Len(cfg.Domains)
        IN /\ Len(sent) <= S * D * cfg.Iterations
           /\ \A k \in DOMAIN sent :
                 /\ sent[k].Server = cfg.Servers[(((k - 1) % (S * D)) \div D) + 1]
                 /\ sent[k].Domain = cfg.Domains[((k - 1) % D) + 1]
                 /\ k > S * D => sent[k] = sent[k - S * D]

\* Two servers and two domains: the four jobs were placed server by server.
C28_Witness ==
    /\ IterationMode
    /\ Len(cfg.Servers) = 2
    /\ Len(cfg.Domains) = 2
    /\ jobsClosed
    /\ sent = << Job(ServerName(1), DomainName(1)), Job(ServerName(1), DomainName(2)),
                 Job(ServerName(2), DomainName(1)), Job(ServerName(2), DomainName(2)) >>

\* Workers with a probe in flight.
InFlight == {w \in DOMAIN wk : wk[w].pc = "measure"}

\* C29: a run has exactly `concurrency` workers from start to end: none is
\* added, the WaitGroup counts those that have not returned, a worker
\* returns only when the job stream is closed and empty, and so at every
\* moment at most `concurrency` probes are in flight.
C29_ExactlyConcurrencyWorkers ==
    /\ [](DOMAIN wk = 1..cfg.Concurrency)
    /\ [](wg = Cardinality({w \in DOMAIN wk : wk[w].pc # "done"}))
    /\ [](Cardinality(InFlight) <= cfg.Concurrency)
    /\ [][DOMAIN wk' = DOMAIN wk]_vars
    /\ [][\A w \in DOMAIN wk :
            (wk[w].pc # "done" /\ wk'[w].pc = "done") =>
                (wk[w].pc = "recv" /\ jobsClosed /\ jobs = <<>>)]_vars

\* Every worker of a pool of two has a probe in flight.
C29_Witness ==
    /\ cfg.Concurrency = 2
    /\ Cardinality(InFlight) = 2
    /\ wg = 2

\* C23: across all interleavings of the callers of measureDoH on the shared
\* Client, the HTTP client is constructed at most once.
C23_HttpClientCreatedOnce == created <= 1

\* A caller has returned from Measure.
MeasureDone(w) == callers[w].pc = "done"

\* The default port of a scheme.
DefaultPort(scheme) == IF scheme = "tls" THEN TlsPort ELSE DnsPort

\* C30: Measure queries an https:// identifier over HTTPS at that URL, a
\* tls:// identifier over TLS and any other identifier over plain DNS, and
\* in the last two cases the query goes to the host of the identifier, at
\* its port when it has one and at the default port (853 for tls://, 53
\* otherwise) when it has none, for host names, IPv4 addresses and IPv6
\* literals alike.
C30_DispatchByPrefix ==
    \A w \in DOMAIN callers :
        MeasureDone(w) =>
            LET c == callers[w]
            IN IF c.id.scheme = "https"
               THEN c.transport = "https" /\ c.addr = c.server
               ELSE /\ c.transport = (IF c.id.scheme = "tls" THEN "tcp-tls" ELSE "udp")
                    /\ c.target = [ok |-> TRUE, host |-> c.id.host,
                                   port |-> IF c.id.port = NoPort
                                            THEN DefaultPort(c.id.scheme)
                                            ELSE c.id.port]

\* The server and the domain a job or a record names.
PairOf(x) == Job(x.Server, x.Domain)

\* C31: every record carries the server and the domain of the job it was
\* produced from, for failed probes as for successful ones: a worker about
\* to publish holds a record for the pair of its job; for every pair the
\* records published plus the jobs still held are the jobs taken; and every
\* record published or returned names a pair of servers x domains of the
\* configuration.  (In WallClock mode a pair may occur in several records.)
C31_RecordCarriesJobPair ==
    /\ \A w \in DOMAIN wk :
          wk[w].pc = "send" => PairOf(wk[w].res) = wk[w].job
    /\ \A j \in JobsOf(cfg) :
          CountPair(published, j.Server, j.Domain)
              + Cardinality({w \in Holding : wk[w].job = j})
            = CountPair(taken, j.Server, j.Domain)
    /\ \A k \in DOMAIN published : PairOf(published[k]) \in JobsOf(cfg)
    /\ \A k \in DOMAIN allResults : PairOf(allResults[k]) \in JobsOf(cfg)

C31_Witness ==
    /\ Returned
    /\ WallClockMode
    /\ Len(cfg.Domains) = 2
    /\ Len(allResults) = 2
    /\ PairOf(allResults[1]) = PairOf(allResults[2])
    /\ Failed(allResults[1])
    /\ PairOf(allResults[1]) = sent[1]

\* C32: channel discipline in every run of both modes.  Neither stream is
\* closed a second time and nothing is sent on a closed stream (either would
\* panic); the job stream is closed only by the source, as its last step, and
\* the result stream only by the closer, as its last step; and each stream is
\* closed in every run, once: no run leaves the source waiting for ever on a
\* send with the job stream still open.
C32_ChannelDiscipline ==
    /\ panicked # "close of closed channel"
    /\ panicked # "send on closed channel"
    /\ jobsClosed => src.pc = "done"
    /\ resultsClosed => closer = "done"
    /\ ~(SourceStuck /\ ~jobsClosed)

\* C33: in WallClock mode at most one job is placed on the job stream after
\* the deadline has fired, and from the deadline on the source is never
\* blocked and every step it takes closes the job stream, except for the one
\* send that was already waiting when the deadline fired: the step after
\* that send is the close.
C33_ClosesWithinOneIteration ==
    /\ [](WallClockMode =>
            /\ lateSends <= 1
            /\ (ctxDone /\ ~jobsClosed) =>
                  /\ src.pc \in {"select", "emit"}
                  /\ ENABLED (SourceSelect \/ SourceEmit))
    /\ [][(ctxDone /\ src' # src) =>
             \/ jobsClosed' /\ src'.pc = "done"
             \/ lateSends = 0 /\ lateSends' = 1 /\ src.pc = "emit"]_vars

C33_Witness ==
    /\ WallClockMode
    /\ cfg.Concurrency = 2
    /\ ctxDone
    /\ lateSends = 1
    /\ Len(sent) = 2
    /\ jobsClosed
    /\ Len(jobs) > 0

\* C34: when Run returns nothing of the engine is left running or blocked,
\* with concurrency 0 as with a pool: the source has closed the job stream
\* and ended, every worker has exited, the closer has ended, and both
\* streams are empty.
C34_NothingLeftAtReturn ==
    Returned =>
        /\ src.pc = "done"
        /\ jobsClosed
        /\ AllWorkersDone
        /\ closer = "done"
        /\ jobs = <<>>
        /\ results = <<>>

\* A step on a channel buffer: a receive removes the element at the front, a
\* send appends one element at the back.
ChanReceive(old, new) == old # <<>> /\ new = Tail(old)

ChanSend(old, new) == new # <<>> /\ old = SubSeq(new, 1, Len(new) - 1)

\* C35: at every moment the job stream and the result stream each buffer at
\* most 10 * concurrency elements; a step on a full stream is a receive (the
\* sender waits), every step on a stream appends one element at the back or
\* removes the one at the front, and nothing is lost: the jobs sent are the
\* jobs taken followed by the jobs buffered, the records published are the
\* records collected followed by the records buffered.
C35_StreamsBounded ==
    /\ [](/\ Len(jobs) <= 10 * cfg.Concurrency
          /\ Len(results) <= 10 * cfg.Concurrency
          /\ sent = taken \o jobs
          /\ published = allResults \o results)
    /\ [][/\ jobs' # jobs =>
                \/ ChanReceive(jobs, jobs')
                \/ Len(jobs) < 10 * cfg.Concurrency /\ ChanSend(jobs, jobs')
          /\ results' # results =>
                \/ ChanReceive(results, results')
                \/ Len(results) < 10 * cfg.Concurrency
                      /\ ChanSend(results, results')]_vars

\* Both queues of a one-worker run are full: the source waits to send its
\* next job and the worker waits to publish its record.
C35_Witness ==
    /\ cfg.Concurrency = 1
    /\ Len(jobs) = 10
    /\ Len(results) = 10
    /\ Len(sent) = 21
    /\ Len(published) = 10
    /\ wk[1].pc = "send"
    /\ src.pc = "loop"
    /\ LoopHasNext(cfg, src)
    /\ allResults = <<>>

\* C36: with one worker in Iteration mode the records are in the order in
\* which the jobs were enqueued: at every moment the i-th record published,
\* and the i-th record collected, is the record of the i-th job placed on
\* the job stream, and the list Run returns has one record for each job
\* enqueued, in that order.
C36_OneWorkerKeepsOrder ==
    (IterationMode /\ cfg.Concurrency = 1) =>
        /\ Len(published) <= Len(sent)
        /\ \A i \in DOMAIN published :
              published[i] = Measure(sent[i].Server, sent[i].Domain)
        /\ Len(allResults) <= Len(published)
        /\ \A i \in DOMAIN allResults : PairOf(allResults[i]) = sent[i]
        /\ Returned => Len(allResults) = Len(sent)

C36_Witness ==
    /\ IterationMode
    /\ cfg.Concurrency = 1
    /\ Returned
    /\ Len(cfg.Servers) = 2
    /\ Len(cfg.Domains) = 2
    /\ Len(allResults) = 4
    /\ PairOf(allResults[2]) = Job(ServerName(1), DomainName(2))
    /\ PairOf(allResults[3]) = Job(ServerName(2), DomainName(1))

\* C37: the progress counter never overstates the work done: in every state
\* completed is at most the number of records published on the result
\* stream and at most the total job count, and every step leaves it alone or
\* adds one.
C37_ProgressNeverOverstates ==
    /\ [](/\ 0 <= completed
          /\ completed <= Len(published)
          /\ completed <= totalJobs)
    /\ [][completed' = completed \/ completed' = completed + 1]_vars

\* Two workers have published the last two records of a run of four jobs and
\* neither has counted its record yet.
C37_Witness ==
    /\ cfg.ShowProgress
    /\ cfg.Concurrency = 2
    /\ totalJobs = 4
    /\ Len(published) = 4
    /\ completed = 2
    /\ Cardinality(Counting) = 2

\* main has called benchmark.Run.
RunCalled == cfgpc = "run"

\* C38: whatever the config file and the flags supplied, the configuration
\* main gives to benchmark.Run has concurrency >= 1, iterations >= 1 and
\* timeout > 0.
C38_ResolvedConfigPositive ==
    RunCalled =>
        /\ runCfg[1].Concurrency >= 1
        /\ runCfg[1].Iterations >= 1
        /\ runCfg[1].Timeout > 0

====
